---------------------------- MODULE Spec2Model ----------------------------
(***************************************************************************)
(* Model of etl_pipeline.py: the generic cleaning function                 *)
(* clean_dataframe, the table rules clean_orders / clean_reviews /         *)
(* clean_customers, the write-time type map dtype_mapping and the ETL      *)
(* loop over the five tables.                                              *)
(*                                                                         *)
(* pandas semantics assumed (object-dtype pandas, 1.x / 2.x):              *)
(*   - Series.astype(str) formats every element with str(): NaN -> 'nan',  *)
(*     pd.NA -> '<NA>', NaT -> 'NaT', 1 -> '1', 1.0 -> '1.0',              *)
(*     datetime.date -> 'YYYY-MM-DD';                                      *)
(*   - isna() holds of NaN, pd.NA and NaT and of no text;                  *)
(*   - a comparison (==) with a missing value is False;                    *)
(*   - a column read with a blank among numbers is float64.                *)
(*                                                                         *)
(* Text is a sequence of one-character strings, so that strip(), lower()   *)
(* and str() are computed rather than assumed.                             *)
(***************************************************************************)
EXTENDS Integers, Sequences, FiniteSets, TLC

VARIABLES idx, pc, df, raw, status, attempts

vars == <<idx, pc, df, raw, status, attempts>>

(***************************************************************************)
(* Bounds of the model.                                                    *)
(***************************************************************************)
\* largest number of records in a frame
MaxRows == 2

(***************************************************************************)
(* Text                                                                    *)
(***************************************************************************)
Digits == <<"0", "1", "2", "3", "4", "5", "6", "7", "8", "9">>

UpperChars == <<"A", "B", "C", "D", "E", "F", "G", "H", "I", "J", "K", "L", "M",
                "N", "O", "P", "Q", "R", "S", "T", "U", "V", "W", "X", "Y", "Z">>

LowerChars == <<"a", "b", "c", "d", "e", "f", "g", "h", "i", "j", "k", "l", "m",
                "n", "o", "p", "q", "r", "s", "t", "u", "v", "w", "x", "y", "z">>

IsSpace(c) == c \in {" ", "\t", "\n"}

IsDigit(c) == \E i \in 1..10 : Digits[i] = c

DigitVal(c) == (CHOOSE i \in 1..10 : Digits[i] = c) - 1

RECURSIVE LStrip(_)
LStrip(s) ==
    IF s = <<>> THEN s
    ELSE IF IsSpace(Head(s)) THEN LStrip(Tail(s)) ELSE s

RECURSIVE RStrip(_)
RStrip(s) ==
    IF s = <<>> THEN s
    ELSE IF IsSpace(s[Len(s)]) THEN RStrip(SubSeq(s, 1, Len(s) - 1)) ELSE s

\* str.strip()
Strip(s) == RStrip(LStrip(s))

LowerChar(c) ==
    IF \E i \in 1..26 : UpperChars[i] = c
    THEN LowerChars[CHOOSE i \in 1..26 : UpperChars[i] = c]
    ELSE c

\* str.lower()
Lower(s) == [i \in 1..Len(s) |-> LowerChar(s[i])]

\* str(n) of a non-negative int
RECURSIVE IntToText(_)
IntToText(n) ==
    IF n < 10 THEN <<Digits[n + 1]>>
    ELSE IntToText(n \div 10) \o <<Digits[(n % 10) + 1]>>

\* str(x) of a float of integral value n: '1.0'
FloatToText(n) == IntToText(n) \o <<".", "0">>

AllDigits(s) == s # <<>> /\ \A i \in 1..Len(s) : IsDigit(s[i])

RECURSIVE DigitsToInt(_)
DigitsToInt(s) ==
    IF s = <<>> THEN 0
    ELSE 10 * DigitsToInt(SubSeq(s, 1, Len(s) - 1)) + DigitVal(s[Len(s)])

\* the literals of the source
EmptyText == << >>
SpaceText == <<" ">>
NanText == <<"n", "a", "n">>
NaNText == <<"N", "a", "N">>
NATextForm == <<"<", "N", "A", ">">>
NaTTextForm == <<"N", "a", "T">>
NSlashAText == <<"N", "/", "A">>
NullText == <<"n", "u", "l", "l">>
CODText == <<"C", "O", "D">>
ShippedText == <<"S", "h", "i", "p", "p", "e", "d">>
PendingText == <<"P", "e", "n", "d", "i", "n", "g">>
UnknownText == <<"U", "n", "k", "n", "o", "w", "n">>

(***************************************************************************)
(* Cells: a value of a frame.  k is the kind, s the text (of a str or the  *)
(* ISO text of a date), n the number (of an int or an integral float).     *)
(***************************************************************************)
StrCell(s) == [k |-> "str", s |-> s, n |-> 0]
IntCell(n) == [k |-> "int", s |-> << >>, n |-> n]
FloatCell(n) == [k |-> "float", s |-> << >>, n |-> n]
DateCell(s) == [k |-> "date", s |-> s, n |-> 0]
NaN == [k |-> "nan", s |-> << >>, n |-> 0]
NA == [k |-> "NA", s |-> << >>, n |-> 0]
NaT == [k |-> "NaT", s |-> << >>, n |-> 0]

\* Series.isna(), elementwise
IsNa(c) == c.k \in {"nan", "NA", "NaT"}

\* str(x), as Series.astype(str) applies it to each element
PyStr(c) ==
    CASE c.k = "str" -> c.s
      [] c.k = "int" -> IntToText(c.n)
      [] c.k = "float" -> FloatToText(c.n)
      [] c.k = "date" -> c.s
      [] c.k = "nan" -> NanText
      [] c.k = "NA" -> NATextForm
      [] c.k = "NaT" -> NaTTextForm

Column(d, cs) == [dtype |-> d, cells |-> cs]

MapCells(col, F(_)) == [i \in 1..Len(col.cells) |-> F(col.cells[i])]

IsNumericDtype(d) == d \in {"int64", "float64"}

(***************************************************************************)
(* clean_dataframe                                                         *)
(***************************************************************************)
\* lines 99-100: astype(str).str.strip(), then replace of '', ' ', 'nan', 'NaN'
CleanTextCell(c) ==
    LET t == Strip(PyStr(c))
    IN  IF t \in {EmptyText, SpaceText, NanText, NaNText} THEN NA ELSE StrCell(t)

\* line 103: fillna(0) on a numeric column
FillZeroCell(c) == IF IsNa(c) THEN FloatCell(0) ELSE c

\* lines 96-103: step 1 on one column
BasicCleanColumn(col) ==
    IF col.dtype = "object"
    THEN Column("object", MapCells(col, CleanTextCell))
    ELSE IF IsNumericDtype(col.dtype)
         THEN Column(col.dtype, MapCells(col, FillZeroCell))
         ELSE col

\* lines 108-115: table_date_cols.get(table_name, [])
table_date_cols(table_name) ==
    CASE table_name = "customers" -> {"signup_date", "dob"}
      [] table_name = "orders" -> {"order_date"}
      [] table_name = "reviews" -> {"review_date"}
      [] OTHER -> {}

\* The texts pd.to_datetime parses here: an ISO calendar date YYYY-MM-DD (the
\* frames of this model hold no other date notation, and no day past the 28th).
IsIsoDate(t) ==
    /\ Len(t) = 10
    /\ t[5] = "-" /\ t[8] = "-"
    /\ \A i \in {1, 2, 3, 4, 6, 7, 9, 10} : IsDigit(t[i])
    /\ DigitsToInt(SubSeq(t, 6, 7)) \in 1..12
    /\ DigitsToInt(SubSeq(t, 9, 10)) \in 1..28

\* lines 119-121: astype(str).str.strip().replace({'': NA}), then
\* to_datetime(errors='coerce', dayfirst=True).dt.date
ToDateCell(c) ==
    LET t == Strip(PyStr(c))
    IN  IF t # EmptyText /\ IsIsoDate(t) THEN DateCell(t) ELSE NaT

DateColumn(col) == Column("object", MapCells(col, ToDateCell))

\* line 130
id_columns == {"order_id", "customer_id", "order_item_id", "product_id"}

\* line 134: astype(str).str.strip()
IdTextCell(c) == StrCell(Strip(PyStr(c)))

IdColumn(col) == Column("object", MapCells(col, IdTextCell))

\* lines 96-103
Step1(f) == [c \in DOMAIN f |-> BasicCleanColumn(f[c])]

\* lines 115-121
Step2(f, table_name) ==
    [c \in DOMAIN f |->
        IF c \in table_date_cols(table_name) THEN DateColumn(f[c]) ELSE f[c]]

\* lines 130-134
Step3(f) ==
    [c \in DOMAIN f |-> IF c \in id_columns THEN IdColumn(f[c]) ELSE f[c]]

\* lines 92-143: the three steps, each on the frame the one before left;
\* table_name "None" is the call without a table name.  (Each step's result
\* is bound as the element of a singleton set, so that it is computed once.)
clean_dataframe(f, table_name) ==
    CHOOSE r \in {Step3(s2) : s2 \in {Step2(s1, table_name) : s1 \in {Step1(f)}}} :
        TRUE

(***************************************************************************)
(* Table rules                                                             *)
(***************************************************************************)
\* A column assigned text becomes object; otherwise it keeps its dtype.
ObjectIfText(d, cs) ==
    IF \E i \in 1..Len(cs) : cs[i].k = "str" THEN "object" ELSE d

\* mutant: rule 1 without the test of payment_method
MaskShippedAnyPayment(pm, os) == IsNa(os)

\* line 154: mask_shipped
MaskShipped(pm, os) == pm = StrCell(CODText) /\ IsNa(os)

\* line 157: mask_pending
MaskPending(pm, os) == IsNa(os) /\ ~MaskShipped(pm, os)

\* lines 159-160: the order_status of a record after the two inference rules
InferStatus(pm, os) ==
    IF MaskShipped(pm, os) THEN StrCell(ShippedText)
    ELSE IF MaskPending(pm, os) THEN StrCell(PendingText)
    ELSE os

\* mutant: the fillna of line 163 left out
FillPaymentSkipped(pm) == pm

\* line 163: fillna('Unknown')
FillPayment(pm) == IF IsNa(pm) THEN StrCell(UnknownText) ELSE pm

\* line 164: payment_method forced to 'COD' where order_status == 'Shipped'
ForceCOD(pm, os) == IF os = StrCell(ShippedText) THEN StrCell(CODText) ELSE pm

\* lines 151-166
clean_orders(f) ==
    LET pm == f["payment_method"].cells
        os == f["order_status"].cells
        os1 == [i \in 1..Len(os) |-> InferStatus(pm[i], os[i])]
        pm1 == [i \in 1..Len(pm) |-> FillPayment(pm[i])]
        pm2 == [i \in 1..Len(pm) |-> ForceCOD(pm1[i], os1[i])]
    IN  [c \in DOMAIN f |->
            CASE c = "order_status" ->
                     Column(ObjectIfText(f[c].dtype, os1), os1)
              [] c = "payment_method" ->
                     Column(ObjectIfText(f[c].dtype, pm2), pm2)
              [] OTHER -> f[c]]

\* line 178: replace(['', ' ', 'nan', 'NaN', 'N/A', 'null'], pd.NA)
RatingReplaceCell(c) ==
    IF c.k = "str" /\ c.s \in {EmptyText, SpaceText, NanText, NaNText,
                                NSlashAText, NullText}
    THEN NA ELSE c

\* line 179: pd.to_numeric(errors='coerce') of one element; the texts it parses
\* here are the unsigned integer literals
ToNumericCell(c) ==
    CASE c.k \in {"int", "float"} -> c
      [] c.k = "str" /\ AllDigits(c.s) -> IntCell(DigitsToInt(c.s))
      [] OTHER -> NaN

\* line 179: the column is int64 when every element is an integer, float64
\* (integers widened) as soon as one is missing
ToNumericColumn(col) ==
    LET cs == MapCells(col, ToNumericCell)
    IN  IF \A i \in 1..Len(cs) : cs[i].k = "int"
        THEN Column("int64", cs)
        ELSE Column("float64",
                    [i \in 1..Len(cs) |->
                        IF cs[i].k = "int" THEN FloatCell(cs[i].n) ELSE cs[i]])

\* line 182: fillna('')
FillEmptyCell(c) == IF IsNa(c) THEN StrCell(EmptyText) ELSE c

\* lines 169-184
clean_reviews(f) ==
    [c \in DOMAIN f |->
        CASE c = "rating" ->
                 ToNumericColumn(Column(f[c].dtype, MapCells(f[c], RatingReplaceCell)))
          [] c = "review_text" ->
                 LET cs == MapCells(f[c], FillEmptyCell)
                 IN  Column(ObjectIfText(f[c].dtype, cs), cs)
          [] OTHER -> f[c]]

\* line 193: replace({'': pd.NA, 'Unknown': pd.NA})
GenderReplaceCell(c) ==
    IF c.k = "str" /\ c.s \in {EmptyText, UnknownText} THEN NA ELSE c

\* line 195: .str.lower() of one element (NaN for an element that is no text)
EmailLowerCell(c) == IF c.k = "str" THEN StrCell(Lower(c.s)) ELSE NaN

\* lines 187-196
clean_customers(f) ==
    [c \in DOMAIN f |->
        CASE c = "gender" -> Column(f[c].dtype, MapCells(f[c], GenderReplaceCell))
          [] c = "email" -> Column("object", MapCells(f[c], EmailLowerCell))
          [] OTHER -> f[c]]

\* line 195: the .str accessor raises AttributeError on a column that is not
\* object (an all-missing email column is float64)
CustomersRaises(f) == "email" \in DOMAIN f /\ f["email"].dtype # "object"

\* lines 247-253: the dispatch on table_name
TableRules(t, f) ==
    CASE t = "orders" -> clean_orders(f)
      [] t = "reviews" -> clean_reviews(f)
      [] t = "customers" -> clean_customers(f)
      [] OTHER -> f

RulesRaise(t, f) == t = "customers" /\ CustomersRaises(f)

\* lines 213-228
dtype_mapping(t) ==
    CASE t = "customers" -> {"customer_id"}
      [] t = "orders" -> {"order_id", "customer_id"}
      [] t = "products" -> {"product_id"}
      [] t = "order_items" -> {"order_item_id", "order_id", "product_id"}
      [] t = "reviews" -> {"review_id", "order_id", "customer_id", "product_id"}
      [] OTHER -> {}

(***************************************************************************)
(* The frames read from the source files (line 239, pd.read_csv).          *)
(* A column is int64 (numbers only), float64 (numbers and blanks, or       *)
(* blanks only) or object (at least one text, blanks read as NaN).         *)
(***************************************************************************)
SpaceOneText == <<" ", "1", " ">>
OneText == <<"1">>
MailText == <<" ", "A", "@", "X", ".", "c", " ">>
FemaleText == <<"F">>
IsoDateText == <<" ", "1", "9", "9", "0", "-", "0", "5", "-", "0", "2">>
NotADateText == <<"n", "/", "d">>
CardText == <<"C", "a", "r", "d">>
DeliveredText == <<"D", "e", "l", "i", "v", "e", "r", "e", "d">>
FiveText == <<"5">>
ReviewIdText == <<"R", "1">>
OkText == <<"o", "k">>

\* the columns of n records over the given cells
ColumnsOf(n, d, cells) == [dtype : {d}, cells : [1..n -> cells]]

ObjectColumns(n, cells) ==
    [dtype : {"object"},
     cells : {x \in [1..n -> cells] : \E i \in 1..n : x[i].k = "str"}]

IdColumns(n) ==
    ColumnsOf(n, "int64", {IntCell(1)})
    \cup ColumnsOf(n, "float64", {FloatCell(1), NaN})
    \cup ObjectColumns(n, {StrCell(SpaceOneText), NaN})

PlainIdColumns(n) ==
    ColumnsOf(n, "int64", {IntCell(1)})
    \cup ObjectColumns(n, {StrCell(OneText)})

AllMissingColumns(n) == ColumnsOf(n, "float64", {NaN})

SourceFrames(t, n) ==
    CASE t = "customers" ->
           [customer_id : PlainIdColumns(n),
            email : ObjectColumns(n, {StrCell(MailText), NaN})
                    \cup AllMissingColumns(n),
            gender : ObjectColumns(n, {StrCell(UnknownText), StrCell(FemaleText)}),
            signup_date : ObjectColumns(n, {StrCell(IsoDateText), StrCell(NotADateText)})]
      [] t = "orders" ->
           [order_id : PlainIdColumns(n),
            order_status :
                ObjectColumns(n, {StrCell(ShippedText), StrCell(DeliveredText), NaN})
                \cup AllMissingColumns(n),
            payment_method :
                ObjectColumns(n, {StrCell(CODText), StrCell(CardText), NaN})
                \cup AllMissingColumns(n)]
      [] t = "products" ->
           [product_id : IdColumns(n)]
      [] t = "order_items" ->
           [order_item_id : IdColumns(n), product_id : PlainIdColumns(n)]
      [] t = "reviews" ->
           [review_id : ColumnsOf(n, "int64", {IntCell(1)})
                        \cup ObjectColumns(n, {StrCell(ReviewIdText)}),
            rating : ColumnsOf(n, "int64", {IntCell(5)})
                     \cup ColumnsOf(n, "float64", {FloatCell(5), NaN})
                     \cup ObjectColumns(n, {StrCell(FiveText), StrCell(NSlashAText), NaN}),
            review_text : ObjectColumns(n, {StrCell(OkText), NaN})]

(***************************************************************************)
(* The ETL loop (lines 233-271)                                            *)
(***************************************************************************)
\* lines 42-48: the tables, in the order of the dict
TableOrder == <<"customers", "orders", "products", "order_items", "reviews">>

Tables == {TableOrder[i] : i \in 1..Len(TableOrder)}

\* df between two iterations: rebound by the next read before any use
NoFrame == [c \in {} |-> 0]

Table == TableOrder[idx]

\* mutant: the failure leaves the loop
AfterErrorAborts(i) == Len(TableOrder) + 1

\* lines 269-271: the except block ends the iteration; the for loop goes on
AfterError(i) == i + 1

\* the end of the loop body
AfterInsert(i) == i + 1

GoTo(i) ==
    /\ idx' = i
    /\ pc' = IF i > Len(TableOrder) THEN "done" ELSE "read"
    /\ df' = NoFrame
    /\ raw' = NoFrame

Fail(t) ==
    /\ status' = [status EXCEPT ![t] = "failed"]
    /\ GoTo(AfterError(idx))

Init ==
    /\ idx = 1
    /\ pc = "read"
    /\ df = NoFrame
    /\ raw = NoFrame
    /\ status = [t \in Tables |-> "pending"]
    /\ attempts = [t \in Tables |-> 0]

\* lines 235-241: read_csv succeeds
Extract ==
    /\ pc = "read"
    /\ attempts' = [attempts EXCEPT ![Table] = @ + 1]
    /\ \E n \in 1..MaxRows : df' \in SourceFrames(Table, n)
    /\ raw' = df'
    /\ pc' = "clean1"
    /\ UNCHANGED <<idx, status>>

\* line 239 raises (file missing, malformed): lines 269-271
ExtractFail ==
    /\ pc = "read"
    /\ attempts' = [attempts EXCEPT ![Table] = @ + 1]
    /\ Fail(Table)

\* line 243
GenericClean ==
    /\ pc = "clean1"
    /\ df' = clean_dataframe(df, Table)
    /\ pc' = "clean2"
    /\ UNCHANGED <<idx, raw, status, attempts>>

\* line 244
GenericCleanAgain ==
    /\ pc = "clean2"
    /\ df' = clean_dataframe(df, "None")
    /\ pc' = "rules"
    /\ UNCHANGED <<idx, raw, status, attempts>>

\* lines 247-253
SpecificClean ==
    /\ pc = "rules"
    /\ ~RulesRaise(Table, df)
    /\ df' = TableRules(Table, df)
    /\ pc' = "load"
    /\ UNCHANGED <<idx, raw, status, attempts>>

\* lines 247-253 raise: lines 269-271
SpecificCleanFail ==
    /\ pc = "rules"
    /\ RulesRaise(Table, df)
    /\ Fail(Table)
    /\ UNCHANGED attempts

\* lines 258-267: to_sql succeeds
Load ==
    /\ pc = "load"
    /\ status' = [status EXCEPT ![Table] = "loaded"]
    /\ pc' = "inserted"
    /\ UNCHANGED <<idx, df, raw, attempts>>

\* lines 258-264 raise (connectivity, type mismatch): lines 269-271
LoadFail ==
    /\ pc = "load"
    /\ Fail(Table)
    /\ UNCHANGED attempts

\* line 233: the next table
NextTable ==
    /\ pc = "inserted"
    /\ GoTo(AfterInsert(idx))
    /\ UNCHANGED <<status, attempts>>

Next ==
    \/ Extract
    \/ ExtractFail
    \/ GenericClean
    \/ GenericCleanAgain
    \/ SpecificClean
    \/ SpecificCleanFail
    \/ Load
    \/ LoadFail
    \/ NextTable

Spec == Init /\ [][Next]_vars

\* the script runs to its end: no statement blocks forever
FairSpec == Spec /\ WF_vars(Next)

(***************************************************************************)
(* clean_orders called on its own, on any orders record set: each of       *)
(* order_status and payment_method a text or missing (NaN or pd.NA).       *)
(***************************************************************************)
OrdersArgs(n) ==
    [order_status :
        ColumnsOf(n, "object", {StrCell(ShippedText), StrCell(DeliveredText), NaN, NA}),
     payment_method :
        ColumnsOf(n, "object", {StrCell(CODText), StrCell(CardText), NaN, NA})]

OrdersInit ==
    /\ idx = 2
    /\ pc = "call"
    /\ \E n \in 1..MaxRows : raw \in OrdersArgs(n)
    /\ df = raw
    /\ status = [t \in Tables |-> "pending"]
    /\ attempts = [t \in Tables |-> 0]

CallCleanOrders ==
    /\ pc = "call"
    /\ df' = clean_orders(df)
    /\ pc' = "returned"
    /\ UNCHANGED <<idx, raw, status, attempts>>

OrdersNext == CallCleanOrders

OrdersSpec == OrdersInit /\ [][OrdersNext]_vars

(***************************************************************************)
(* Properties                                                              *)
(***************************************************************************)
Rows(f, c) == 1..Len(f[c].cells)

Inserted(t) == pc = "inserted" /\ Table = t

\* C1: a failure while reading or writing a table is caught for that table
\* only: no table is attempted twice, the run ends, and at its end every one
\* of the five tables has been attempted exactly once.
C1_EveryTableAttemptedOnce ==
    /\ [](\A t \in Tables : attempts[t] <= 1)
    /\ [](pc = "done" => \A t \in Tables : attempts[t] = 1)
    /\ <>(pc = "done")

\* C1 witness: the run is over, the first two tables failed and the last one
\* was still attempted and loaded.
C1_Witness ==
    /\ pc = "done"
    /\ status["customers"] = "failed"
    /\ status["orders"] = "failed"
    /\ status["reviews"] = "loaded"
    /\ \A t \in Tables : attempts[t] = 1

\* C2: every record returned by clean_orders has order_status and
\* payment_method not missing.
C2_OrdersNeverMissing ==
    pc = "returned" =>
        \A i \in Rows(df, "order_status") :
            /\ ~IsNa(df["order_status"].cells[i])
            /\ ~IsNa(df["payment_method"].cells[i])

\* C2 witness: clean_orders has returned for a record that came in with both
\* fields missing.
C2_Witness ==
    /\ pc = "returned"
    /\ \E i \in Rows(raw, "order_status") :
            /\ IsNa(raw["order_status"].cells[i])
            /\ IsNa(raw["payment_method"].cells[i])

\* C3: through the loop, an orders record read with payment_method 'COD' and
\* order_status missing is persisted as Shipped / COD, and one read with both
\* missing is persisted as Pending / Unknown.
C3_OrdersScenarioPersisted ==
    Inserted("orders") =>
        \A i \in Rows(raw, "order_status") :
            LET pm0 == raw["payment_method"].cells[i]
                os0 == raw["order_status"].cells[i]
                pm == df["payment_method"].cells[i]
                os == df["order_status"].cells[i]
            IN  /\ (pm0 = StrCell(CODText) /\ IsNa(os0)) =>
                        (os = StrCell(ShippedText) /\ pm = StrCell(CODText))
                /\ (IsNa(pm0) /\ IsNa(os0)) =>
                        (os = StrCell(PendingText) /\ pm = StrCell(UnknownText))

\* the text forms of a missing rating
MissingRatingForms ==
    {EmptyText, SpaceText, NanText, NaNText, NSlashAText, NullText}

\* C4: through the loop, a review whose rating was read missing, or as one of
\* the text forms of missing, is persisted with rating missing, never 0.
C4_MissingRatingStaysMissing ==
    Inserted("reviews") =>
        \A i \in Rows(raw, "rating") :
            LET r0 == raw["rating"].cells[i]
            IN  (IsNa(r0) \/ (r0.k = "str" /\ r0.s \in MissingRatingForms)) =>
                    IsNa(df["rating"].cells[i])

\* C5: the second call of clean_dataframe (line 244) leaves the result of the
\* first call unchanged.
C5_GenericCleanIdempotent ==
    pc = "rules" => df = clean_dataframe(raw, Table)

BlankOrNan(t) == Strip(t) = EmptyText \/ t = NanText

\* C6: after clean_dataframe no field of a text column is '', blank or
\* 'nan', and every field read missing, empty, blank or 'nan' holds the
\* missing marker.
C6_TextMissingIsMarker ==
    pc = "clean2" =>
        \A c \in DOMAIN raw : raw[c].dtype = "object" =>
            \A i \in Rows(raw, c) :
                LET c0 == raw[c].cells[i]
                    c1 == df[c].cells[i]
                IN  /\ ~(c1.k = "str" /\ BlankOrNan(c1.s))
                    /\ (IsNa(c0) \/ (c0.k = "str" /\ BlankOrNan(c0.s))) => IsNa(c1)

\* the cells that encode the ID number n: the number itself, or its digits
\* as text, with or without surrounding blanks
EncodesId(c) ==
    \/ c.k \in {"int", "float"}
    \/ c.k = "str" /\ AllDigits(Strip(c.s))

IdNumber(c) == IF c.k = "str" THEN DigitsToInt(Strip(c.s)) ELSE c.n

\* C7: after clean_dataframe every ID field that encoded the number n, as a
\* number or as text, is the text of n.
C7_IdTextIdentical ==
    pc = "clean2" =>
        \A c \in DOMAIN raw \cap id_columns :
            \A i \in Rows(raw, c) :
                EncodesId(raw[c].cells[i]) =>
                    df[c].cells[i] = StrCell(IntToText(IdNumber(raw[c].cells[i])))

\* C8: through the loop, a customer read with email missing is persisted
\* with email missing, and one read with an email is persisted with it
\* trimmed and lower-cased.
C8_EmailPersisted ==
    Inserted("customers") =>
        \A i \in Rows(raw, "email") :
            LET e0 == raw["email"].cells[i]
                e == df["email"].cells[i]
            IN  /\ IsNa(e0) => IsNa(e)
                /\ e0.k = "str" => e = StrCell(Lower(Strip(e0.s)))

\* C9 as stated: the post-pass never changes a payment_method: every record
\* leaves clean_orders with the payment_method it had after fillna.
C9_PostPassChangesNothing ==
    pc = "returned" =>
        \A i \in Rows(raw, "payment_method") :
            df["payment_method"].cells[i] = FillPayment(raw["payment_method"].cells[i])

\* C9 amended: only rule 1 turns an order_status into 'Shipped', and the
\* post-pass changes the payment_method of no record whose order_status did
\* not arrive as 'Shipped'; a record that arrives 'Shipped' leaves with 'COD'.
C9_PostPassOnlyOnShippedInput ==
    pc = "returned" =>
        \A i \in Rows(raw, "payment_method") :
            LET pm0 == raw["payment_method"].cells[i]
                os0 == raw["order_status"].cells[i]
                pm == df["payment_method"].cells[i]
                os == df["order_status"].cells[i]
            IN  /\ (os = StrCell(ShippedText) /\ os0 # StrCell(ShippedText)) =>
                        (pm0 = StrCell(CODText) /\ IsNa(os0))
                /\ os0 # StrCell(ShippedText) => pm = FillPayment(pm0)
                /\ os0 = StrCell(ShippedText) => pm = StrCell(CODText)

\* C9 witness: clean_orders has returned; rule 1 made one record Shipped and
\* another record arrived Shipped with a payment_method that is not COD.
C9_Witness ==
    /\ pc = "returned"
    /\ \E i \in Rows(raw, "payment_method") :
            /\ MaskShipped(raw["payment_method"].cells[i], raw["order_status"].cells[i])
            /\ df["order_status"].cells[i] = StrCell(ShippedText)
    /\ \E i \in Rows(raw, "payment_method") :
            /\ raw["order_status"].cells[i] = StrCell(ShippedText)
            /\ raw["payment_method"].cells[i] = StrCell(CardText)

\* C10: every column persisted under a bounded-text type is an ID column that
\* clean_dataframe coerced, so each of its values is text.
C10_BoundedTextIsText ==
    pc = "inserted" =>
        \A c \in DOMAIN df \cap dtype_mapping(Table) :
            /\ c \in id_columns
            /\ \A i \in Rows(df, c) : df[c].cells[i].k = "str"

=============================================================================
